---- MODULE Spec2Model ----
(***************************************************************************)
(* The TSP core of ParcelService (src/tsp_solver.py; src/tsp.py holds an   *)
(* identical copy of the same functions): greedy_tsp, the nearest          *)
(* neighbour construction, two_opt_improvement, the first-improvement      *)
(* 2-opt local search, and solve_tsp, which composes them.                 *)
(*                                                                         *)
(* Python lists are sequences; a Python index k of a list of length len    *)
(* is the position k+1 of the sequence (k+len+1 when k is negative), and   *)
(* an index outside -len..len-1 raises IndexError.  Distances are          *)
(* non-negative integers, float('inf') is the value Inf, and None is the   *)
(* value NoPlace.                                                          *)
(***************************************************************************)
EXTENDS Integers, Sequences, FiniteSets

\* Largest number of places, and largest number of pairs of places that are
\* apart (every other pair of places is at distance 0 of each other).
MaxN == 5
MaxApart == 2
\* The same number for the runs checked for termination.
MaxApartFair == 1

VARIABLES distance_matrix, start_index, return_to_start,
          pc, error, visited, path, step, best_path, best_distance, improved, i, j,
          new_path, new_distance, result

vars == <<distance_matrix, start_index, return_to_start,
          pc, error, visited, path, step, best_path, best_distance, improved, i, j,
          new_path, new_distance, result>>

\* float('inf'): greater than every distance.
Inf == -1
\* None (next_place before a candidate has been taken).
NoPlace == -1000

----------------------------------------------------------------------------
\* Python list indexing

\* lst[k] does not raise IndexError
PyValid(len, k) == -len <= k /\ k < len

\* the position of lst[k] in the sequence lst
PyPos(len, k) == IF k < 0 THEN k + len + 1 ELSE k + 1

PyGet(lst, k) == lst[PyPos(Len(lst), k)]

\* distance_matrix[r][c] does not raise
MatDefined(m, r, c) ==
    /\ PyValid(Len(m), r)
    /\ PyValid(Len(PyGet(m, r)), c)

\* distance_matrix[r][c]
MatGet(m, r, c) == PyGet(PyGet(m, r), c)

\* (changed: d <= min_distance)
LessOrEqual(d, min_distance) == min_distance = Inf \/ d <= min_distance

\* d < min_distance, where min_distance may be float('inf')
LessThan(d, min_distance) == min_distance = Inf \/ d < min_distance

Reverse(s) == [k \in 1..Len(s) |-> s[Len(s) + 1 - k]]

\* lst[a:b] for 0 <= a, b
Slice(lst, a, b) ==
    LET hi == IF b > Len(lst) THEN Len(lst) ELSE b
    IN  IF a >= hi THEN << >> ELSE SubSeq(lst, a + 1, hi)

----------------------------------------------------------------------------
\* Inputs: create_distance_matrix gives a symmetric matrix with a zero
\* diagonal; a caller of greedy_tsp may also pass rows that are one entry
\* short or one entry long, and any start index.  The matrices are those in
\* which at most MaxApart pairs of places are one unit apart; the places of
\* every other pair coincide (distance 0).

Pairs(n) == {p \in (0..(n - 1)) \X (0..(n - 1)) : p[1] < p[2]}

Distances(n, most) ==
    {[p \in Pairs(n) |-> IF p \in apart THEN 1 ELSE 0] :
        apart \in {s \in SUBSET Pairs(n) : Cardinality(s) <= most}}

Entry(f, r, c) == IF r = c THEN 0 ELSE IF r < c THEN f[<<r, c>>] ELSE f[<<c, r>>]

\* the n rows of the matrix of f, each cut or padded (with 0) to ncols entries
MatrixOf(f, n, ncols) ==
    [r \in 1..n |-> [c \in 1..ncols |-> IF c <= n THEN Entry(f, r - 1, c - 1) ELSE 0]]

Matrices(n, ncols, most) == {MatrixOf(f, n, ncols) : f \in Distances(n, most)}

Widths(n) == {w \in {n - 1, n, n + 1} : w >= 0}

IsSquare(m) == \A r \in 1..Len(m) : Len(m[r]) = Len(m)

InitWith(most) ==
    /\ \E places \in 0..MaxN : \E w \in Widths(places) :
          /\ distance_matrix \in Matrices(places, w, most)
          /\ start_index \in (-1)..places
    /\ return_to_start \in BOOLEAN
    /\ pc = "greedy_tsp"
    /\ error = "none"
    /\ visited = << >>
    /\ path = << >>
    /\ step = 0
    /\ best_path = << >>
    /\ best_distance = 0
    /\ improved = FALSE
    /\ i = 0
    /\ j = 0
    /\ new_path = << >>
    /\ new_distance = 0
    /\ result = << >>

Init == InitWith(MaxApart)

InitFair == InitWith(MaxApartFair)

----------------------------------------------------------------------------
\* greedy_tsp

\* (changed: the candidate's visited flag is not looked at)
UnvisitedAny(vis, candidate) == TRUE

\* not visited[candidate]
Unvisited(vis, candidate) == ~PyGet(vis, candidate)

\* the loop over the candidates: candidate, candidate+1, ..., n-1, with the
\* running next_place and min_distance in acc
RECURSIVE ScanCandidates(_, _, _, _, _)
ScanCandidates(m, vis, current, candidate, acc) ==
    IF candidate >= Len(m) THEN acc
    ELSE IF /\ Unvisited(vis, candidate)
            /\ LessThan(MatGet(m, current, candidate), acc.min_distance)
         THEN ScanCandidates(m, vis, current, candidate + 1,
                  [next_place |-> candidate,
                   min_distance |-> MatGet(m, current, candidate)])
         ELSE ScanCandidates(m, vis, current, candidate + 1, acc)

\* next_place and min_distance after the loop over the candidates
Nearest(m, vis, current) ==
    ScanCandidates(m, vis, current, 0, [next_place |-> NoPlace, min_distance |-> Inf])

\* the loop over the candidates reads an entry the matrix does not have
ScanRaises(m, vis, current) ==
    \E candidate \in 0..(Len(m) - 1) :
        Unvisited(vis, candidate) /\ ~MatDefined(m, current, candidate)

\* visited[k] = True
MarkVisited(vis, k) == [vis EXCEPT ![PyPos(Len(vis), k)] = TRUE]

\* n = len(distance_matrix); visited = [False] * n; path = [start_index];
\* visited[start_index] = True
GreedyInit ==
    /\ pc = "greedy_tsp"
    /\ PyValid(Len(distance_matrix), start_index)
    /\ visited' = MarkVisited([k \in 1..Len(distance_matrix) |-> FALSE], start_index)
    /\ path' = <<start_index>>
    /\ step' = 0
    /\ pc' = "greedy_loop"
    /\ UNCHANGED <<distance_matrix, start_index, return_to_start, error,
                   best_path, best_distance, improved, i, j,
                   new_path, new_distance, result>>

\* visited[start_index] = True raises IndexError
GreedyInitRaise ==
    /\ pc = "greedy_tsp"
    /\ ~PyValid(Len(distance_matrix), start_index)
    /\ pc' = "raised"
    /\ error' = "IndexError"
    /\ UNCHANGED <<distance_matrix, start_index, return_to_start, visited, path,
                   step, best_path, best_distance, improved, i, j,
                   new_path, new_distance, result>>

\* one iteration of for _ in range(n - 1)
GreedyStep ==
    /\ pc = "greedy_loop"
    /\ step < Len(distance_matrix) - 1
    /\ ~ScanRaises(distance_matrix, visited, path[Len(path)])
    /\ LET found == Nearest(distance_matrix, visited, path[Len(path)])
       IN  IF found.next_place = NoPlace
           THEN \* path.append(None); visited[None] = True raises TypeError
                /\ pc' = "raised"
                /\ error' = "TypeError"
                /\ UNCHANGED <<visited, path, step>>
           ELSE /\ path' = Append(path, found.next_place)
                /\ visited' = MarkVisited(visited, found.next_place)
                /\ step' = step + 1
                /\ UNCHANGED <<pc, error>>
    /\ UNCHANGED <<distance_matrix, start_index, return_to_start,
                   best_path, best_distance, improved, i, j,
                   new_path, new_distance, result>>

\* distance_matrix[current][candidate] raises IndexError
GreedyStepRaise ==
    /\ pc = "greedy_loop"
    /\ step < Len(distance_matrix) - 1
    /\ ScanRaises(distance_matrix, visited, path[Len(path)])
    /\ pc' = "raised"
    /\ error' = "IndexError"
    /\ UNCHANGED <<distance_matrix, start_index, return_to_start, visited, path,
                   step, best_path, best_distance, improved, i, j,
                   new_path, new_distance, result>>

\* return path, to solve_tsp
GreedyReturn ==
    /\ pc = "greedy_loop"
    /\ step >= Len(distance_matrix) - 1
    /\ pc' = "two_opt_improvement"
    /\ UNCHANGED <<distance_matrix, start_index, return_to_start, error, visited,
                   path, step, best_path, best_distance, improved, i, j,
                   new_path, new_distance, result>>

----------------------------------------------------------------------------
\* calculate_path_distance, two_opt_swap

\* no distance_matrix[path[k]][path[k + 1]] raises
CalcDefined(p, m) == \A k \in 1..(Len(p) - 1) : MatDefined(m, p[k], p[k + 1])

\* total after the iterations k, k+1, ..., len(path) - 2
RECURSIVE SumFrom(_, _, _, _)
SumFrom(p, m, k, total) ==
    IF k >= Len(p) - 1 THEN total
    ELSE SumFrom(p, m, k + 1, total + MatGet(m, PyGet(p, k), PyGet(p, k + 1)))

calculate_path_distance(p, m) == SumFrom(p, m, 0, 0)

\* (changed: reversed(path[i:j]), which leaves path[j] out)
two_opt_swap_short(p, a, b) ==
    Slice(p, 0, a) \o Reverse(Slice(p, a, b)) \o Slice(p, b + 1, Len(p))

\* path[:i] + reversed(path[i:j + 1]) + path[j + 1:]
two_opt_swap(p, a, b) ==
    Slice(p, 0, a) \o Reverse(Slice(p, a, b + 1)) \o Slice(p, b + 1, Len(p))

----------------------------------------------------------------------------
\* two_opt_improvement

\* (changed: range(i + 1, len(best_path) - 2))
InnerStopEarly(len) == len - 2
\* (changed: range(0, len(best_path) - 2))
OuterStartZero(len) == 0

\* range(1, len(best_path) - 2) and range(i + 1, len(best_path) - 1)
OuterStart(len) == 1
OuterStop(len) == len - 2
InnerStop(len) == len - 1

\* (changed: new_distance <= best_distance)
ImprovesOrEqual(candidate_distance, old_distance) == candidate_distance <= old_distance

\* new_distance < best_distance
Improves(candidate_distance, old_distance) == candidate_distance < old_distance

\* the first pair of the scan from the iteration a of the loop over i on:
\* <<0, 0>> when both loops are over
RECURSIVE EnterOuter(_, _)
EnterOuter(len, a) ==
    IF a >= OuterStop(len) THEN <<0, 0>>
    ELSE IF a + 1 < InnerStop(len) THEN <<a, a + 1>>
    ELSE EnterOuter(len, a + 1)

\* (changed: the loop over j is left after its first pair)
NextPairBreak(len, a, b) == EnterOuter(len, a + 1)

\* the pair after (a, b) when (a, b) was not accepted
NextPair(len, a, b) ==
    IF b + 1 < InnerStop(len) THEN <<a, b + 1>> ELSE EnterOuter(len, a + 1)

\* improved = True; best_path = path; best_distance = calculate_path_distance(...)
TwoOptInit ==
    /\ pc = "two_opt_improvement"
    /\ IF CalcDefined(path, distance_matrix)
       THEN /\ improved' = TRUE
            /\ best_path' = path
            /\ best_distance' = calculate_path_distance(path, distance_matrix)
            /\ pc' = "while"
            /\ UNCHANGED error
       ELSE /\ pc' = "raised"
            /\ error' = "IndexError"
            /\ UNCHANGED <<improved, best_path, best_distance>>
    /\ UNCHANGED <<distance_matrix, start_index, return_to_start, visited, path,
                   step, i, j, new_path, new_distance, result>>

\* while improved: improved = False, and the scan starts at its first pair
TwoOptWhile ==
    /\ pc = "while"
    /\ improved
    /\ improved' = FALSE
    /\ LET first == EnterOuter(Len(best_path), OuterStart(Len(best_path)))
       IN  /\ i' = first[1]
           /\ j' = first[2]
           /\ pc' = IF first = <<0, 0>> THEN "while" ELSE "try"
    /\ UNCHANGED <<distance_matrix, start_index, return_to_start, error, visited,
                   path, step, best_path, best_distance,
                   new_path, new_distance, result>>

\* new_path = two_opt_swap(best_path, i, j);
\* new_distance = calculate_path_distance(new_path, distance_matrix)
TwoOptTry ==
    /\ pc = "try"
    /\ IF CalcDefined(two_opt_swap(best_path, i, j), distance_matrix)
       THEN /\ new_path' = two_opt_swap(best_path, i, j)
            /\ new_distance' =
                  calculate_path_distance(two_opt_swap(best_path, i, j), distance_matrix)
            /\ pc' = "if"
            /\ UNCHANGED error
       ELSE /\ pc' = "raised"
            /\ error' = "IndexError"
            /\ UNCHANGED <<new_path, new_distance>>
    /\ UNCHANGED <<distance_matrix, start_index, return_to_start, visited, path,
                   step, best_path, best_distance, improved, i, j, result>>

\* the pair (i, j) improves: best_path = new_path, improved = True, both breaks
TwoOptAccept ==
    /\ pc = "if"
    /\ Improves(new_distance, best_distance)
    /\ best_path' = new_path
    /\ best_distance' = new_distance
    /\ improved' = TRUE
    /\ pc' = "while"
    /\ UNCHANGED <<distance_matrix, start_index, return_to_start, error, visited,
                   path, step, i, j, new_path, new_distance, result>>

\* the pair (i, j) does not improve: on to the next pair, or the scan is over
TwoOptReject ==
    /\ pc = "if"
    /\ ~Improves(new_distance, best_distance)
    /\ LET next == NextPair(Len(best_path), i, j)
       IN  /\ i' = next[1]
           /\ j' = next[2]
           /\ pc' = IF next = <<0, 0>> THEN "while" ELSE "try"
    /\ UNCHANGED <<distance_matrix, start_index, return_to_start, error, visited,
                   path, step, best_path, best_distance, improved,
                   new_path, new_distance, result>>

\* return best_path, to solve_tsp: path = two_opt_improvement(path, ...)
TwoOptReturn ==
    /\ pc = "while"
    /\ ~improved
    /\ result' = best_path
    /\ pc' = "solve_tsp"
    /\ UNCHANGED <<distance_matrix, start_index, return_to_start, error, visited,
                   path, step, best_path, best_distance, improved, i, j,
                   new_path, new_distance>>

----------------------------------------------------------------------------
\* solve_tsp

\* (changed: path.append(path[-1]))
ClosedOnLast(p, start, close) == IF close THEN Append(p, p[Len(p)]) ELSE p

\* the path solve_tsp returns
Closed(p, start, close) == IF close THEN Append(p, start) ELSE p

\* if return_to_start: path.append(start_index); return path
SolveReturn ==
    /\ pc = "solve_tsp"
    /\ result' = Closed(result, start_index, return_to_start)
    /\ pc' = "done"
    /\ UNCHANGED <<distance_matrix, start_index, return_to_start, error, visited,
                   path, step, best_path, best_distance, improved, i, j,
                   new_path, new_distance>>

Next ==
    \/ GreedyInit
    \/ GreedyInitRaise
    \/ GreedyStep
    \/ GreedyStepRaise
    \/ GreedyReturn
    \/ TwoOptInit
    \/ TwoOptWhile
    \/ TwoOptTry
    \/ TwoOptAccept
    \/ TwoOptReject
    \/ TwoOptReturn
    \/ SolveReturn

Spec == Init /\ [][Next]_vars

\* every step that can be taken is taken: the program is one thread that runs
\* until it returns or raises
FairSpec == InitFair /\ [][Next]_vars /\ WF_vars(Next)

----------------------------------------------------------------------------
\* The three functions as functions of their arguments, for arguments with
\* which no index is out of range: the loops above, run to the return.

\* greedy_tsp from the iteration k of for _ in range(n - 1) on
RECURSIVE GreedyFrom(_, _, _, _)
GreedyFrom(m, vis, p, k) ==
    IF k >= Len(m) - 1 THEN p
    ELSE LET found == Nearest(m, vis, p[Len(p)])
         IN  GreedyFrom(m, MarkVisited(vis, found.next_place),
                        Append(p, found.next_place), k + 1)

greedy_tsp(m, start) ==
    GreedyFrom(m, MarkVisited([k \in 1..Len(m) |-> FALSE], start), <<start>>, 0)

\* two_opt_improvement from the pair `pair` of a scan on; <<0, 0>>: the scan
\* is over and nothing improved
RECURSIVE TwoOptFrom(_, _, _, _)
TwoOptFrom(bp, bd, pair, m) ==
    IF pair = <<0, 0>> THEN bp
    ELSE LET np == two_opt_swap(bp, pair[1], pair[2])
             nd == calculate_path_distance(np, m)
         IN  IF Improves(nd, bd)
             THEN TwoOptFrom(np, nd, EnterOuter(Len(np), OuterStart(Len(np))), m)
             ELSE TwoOptFrom(bp, bd, NextPair(Len(bp), pair[1], pair[2]), m)

two_opt_improvement(p, m) ==
    TwoOptFrom(p, calculate_path_distance(p, m), EnterOuter(Len(p), OuterStart(Len(p))), m)

solve_tsp(m, start, close) ==
    Closed(two_opt_improvement(greedy_tsp(m, start), m), start, close)

----------------------------------------------------------------------------
\* Properties

n == Len(distance_matrix)

\* s is a permutation of 0..len-1
IsPermutation(s, len) ==
    /\ Len(s) = len
    /\ \A k \in 0..(len - 1) : \E q \in 1..len : s[q] = k

\* a square matrix of at least one place and a start index in 0..n-1
ValidInput ==
    /\ n >= 1
    /\ IsSquare(distance_matrix)
    /\ start_index \in 0..(n - 1)

\* two_opt_improvement is running
InTwoOpt == pc \in {"while", "try", "if"}

\* the sanity of the model: the steps and the functions agree
StepsAgree ==
    /\ (ValidInput /\ pc = "two_opt_improvement")
          => path = greedy_tsp(distance_matrix, start_index)
    /\ (ValidInput /\ pc = "solve_tsp")
          => result = two_opt_improvement(path, distance_matrix)
    /\ (ValidInput /\ pc = "done")
          => result = solve_tsp(distance_matrix, start_index, return_to_start)
    /\ InTwoOpt => best_distance = calculate_path_distance(best_path, distance_matrix)

\* C1: for a square matrix of n >= 1 places and a start in 0..n-1, the path
\* greedy_tsp returns has length n, is a permutation of 0..n-1 and begins
\* with start.
C1_GreedyPermutation ==
    (ValidInput /\ pc = "two_opt_improvement") =>
        /\ Len(path) = n
        /\ IsPermutation(path, n)
        /\ path[1] = start_index

\* greedy_tsp has returned a path over the largest number of places, from a
\* start that is not the first place
C1_Witness ==
    /\ ValidInput
    /\ pc = "two_opt_improvement"
    /\ n = MaxN
    /\ start_index > 0

\* C2: every accepted 2-opt move replaces best_path by a path whose
\* calculate_path_distance is strictly less, and the tour two_opt_improvement
\* returns is not longer than the tour it was given.
C2_NeverLonger ==
    [][ /\ (InTwoOpt /\ best_path' # best_path) =>
              calculate_path_distance(best_path', distance_matrix)
                < calculate_path_distance(best_path, distance_matrix)
        /\ (InTwoOpt /\ pc' = "solve_tsp") =>
              calculate_path_distance(result', distance_matrix)
                <= calculate_path_distance(path, distance_matrix) ]_vars

\* two_opt_improvement has returned a tour that is shorter than its input
C2_Witness ==
    /\ pc = "solve_tsp"
    /\ calculate_path_distance(result, distance_matrix)
         < calculate_path_distance(path, distance_matrix)

\* C3: started on a permutation of 0..n-1 with a square matrix of
\* non-negative distances, two_opt_improvement returns after finitely many
\* steps (also when every distance is 0).
C3_Terminates ==
    (pc = "two_opt_improvement" /\ IsSquare(distance_matrix)
        /\ IsPermutation(path, n)) ~> (pc = "solve_tsp")

AllZero ==
    \A r \in 1..n : \A c \in 1..Len(distance_matrix[r]) : distance_matrix[r][c] = 0

\* two_opt_improvement has returned after a scan of several pairs, once on a
\* matrix of zeros and once after an accepted move
C3_Witness ==
    /\ pc = "solve_tsp"
    /\ IsSquare(distance_matrix)
    /\ IsPermutation(path, n)
    /\ n >= 5
    /\ AllZero \/ result # path

\* the pair (a, b) is in the 2-opt neighbourhood of a tour of length len
Movable(len, a, b) == 1 <= a /\ a < b /\ b <= len - 2

\* C4: the tour two_opt_improvement returns is a fixed point: no reversal of
\* a segment [a, b] with 1 <= a < b <= n-2 makes it strictly shorter, and
\* two_opt_improvement applied to it returns it unchanged.
C4_Idempotent ==
    (ValidInput /\ pc = "solve_tsp") =>
        /\ \A a \in 1..n : \A b \in 1..n :
              Movable(n, a, b) =>
                 calculate_path_distance(two_opt_swap(result, a, b), distance_matrix)
                    >= calculate_path_distance(result, distance_matrix)
        /\ two_opt_improvement(result, distance_matrix) = result

\* two_opt_improvement has returned a tour it changed, of a neighbourhood of
\* several pairs
C4_Witness ==
    /\ ValidInput
    /\ pc = "solve_tsp"
    /\ n >= 5
    /\ result # path

\* C5: greedy_tsp raises, and returns no path, when start is outside
\* 0..n-1 or the matrix is not square.
C5_BadInputRaises ==
    (start_index \notin 0..(n - 1) \/ ~IsSquare(distance_matrix))
        => pc \in {"greedy_tsp", "greedy_loop", "raised"}

\* C6: for no places (a 0 x 0 matrix) greedy_tsp and solve_tsp raise nothing.
C6_EmptyDoesNotRaise ==
    n = 0 => pc # "raised"

\* C7: with return_to_start, solve_tsp returns n+1 indices, the first and the
\* last being start and the first n being the tour solve_tsp returns without
\* return_to_start; the closing index is appended after the 2-opt moves, so
\* no move sees it.
C7_ClosedTour ==
    (ValidInput /\ return_to_start) =>
        /\ InTwoOpt => Len(best_path) = n
        /\ pc = "done" =>
              /\ Len(result) = n + 1
              /\ result[1] = start_index
              /\ result[n + 1] = start_index
              /\ SubSeq(result, 1, n) = solve_tsp(distance_matrix, start_index, FALSE)

\* solve_tsp has returned a closed tour of at least three places
C7_Witness ==
    /\ ValidInput
    /\ return_to_start
    /\ pc = "done"
    /\ n >= 3

\* C8: while two_opt_improvement runs on a permutation of 0..n-1, and when it
\* returns, best_path is a permutation of 0..n-1 of length n.
C8_StaysPermutation ==
    IsPermutation(path, n) =>
        /\ InTwoOpt => IsPermutation(best_path, n)
        /\ pc = "solve_tsp" => IsPermutation(result, n)

\* a move has been accepted on a permutation
C8_Witness ==
    /\ IsPermutation(path, n)
    /\ InTwoOpt
    /\ best_path # path

\* C9: while two_opt_improvement runs, and when it returns, the first and the
\* last index of the tour are those of the tour it was given.
C9_EndsFixed ==
    /\ InTwoOpt =>
          /\ Len(best_path) = Len(path)
          /\ best_path[1] = path[1]
          /\ best_path[Len(path)] = path[Len(path)]
    /\ pc = "solve_tsp" =>
          /\ Len(result) = Len(path)
          /\ result[1] = path[1]
          /\ result[Len(path)] = path[Len(path)]

\* a move has been accepted and both ends are where they were
C9_Witness ==
    /\ InTwoOpt
    /\ best_path # path
    /\ best_path[1] = path[1]
    /\ best_path[Len(path)] = path[Len(path)]

\* (a, b) comes before (c, d) in ascending i and, within i, ascending j
Before(a, b, c, d) == a < c \/ (a = c /\ b < d)

\* (c, d) is the pair right after (a, b) in that order
Successor(len, a, b, c, d) ==
    /\ Movable(len, c, d)
    /\ Before(a, b, c, d)
    /\ \A e \in 1..len : \A f \in 1..len :
          (Movable(len, e, f) /\ Before(a, b, e, f)) => ~Before(e, f, c, d)

\* (a, b) is the last pair in that order
LastPair(len, a, b) ==
    \A e \in 1..len : \A f \in 1..len : Movable(len, e, f) => ~Before(a, b, e, f)

\* the reversal of [a, b] makes the tour p strictly shorter
Shorter(p, a, b) ==
    calculate_path_distance(two_opt_swap(p, a, b), distance_matrix)
        < calculate_path_distance(p, distance_matrix)

\* C10: a scan examines the pairs (i, j), 1 <= i < j <= n-2, in ascending i
\* and ascending j within i; the pair accepted is the first one in that order
\* whose reversal is strictly shorter, no later pair of the scan is examined,
\* and the next scan starts at the first pair, on the new tour.
C10_FirstImprovement ==
    [][ ValidInput =>
        /\ \* a scan starts at the first pair
           (pc = "while" /\ pc' = "try") => (i' = 1 /\ j' = 2)
        /\ \* a scan of a tour with a pair to examine examines it
           (pc = "while" /\ improved /\ n >= 4) => pc' = "try"
        /\ \* the pair examined is in the neighbourhood and none before it improves
           pc' = "try" =>
              /\ Movable(n, i', j')
              /\ \A a \in 1..n : \A b \in 1..n :
                    (Movable(n, a, b) /\ Before(a, b, i', j')) => ~Shorter(best_path', a, b)
        /\ \* the pair is examined on the current tour
           pc = "try" => (pc' = "if" /\ new_path' = two_opt_swap(best_path, i, j))
        /\ \* a pair that improves is accepted, and the scan is over
           (pc = "if" /\ Shorter(best_path, i, j)) =>
              /\ best_path' = two_opt_swap(best_path, i, j)
              /\ pc' = "while"
              /\ improved'
        /\ \* a pair that does not improve is followed by the next one
           (pc = "if" /\ ~Shorter(best_path, i, j)) =>
              /\ best_path' = best_path
              /\ IF LastPair(n, i, j)
                 THEN pc' = "while" /\ ~improved'
                 ELSE pc' = "try" /\ Successor(n, i, j, i', j')
        /\ \* the tour changes only by an accepted pair
           (InTwoOpt /\ best_path' # best_path) => pc = "if" ]_vars

\* the pair accepted is not the first pair of its scan, and a new scan started
C10_Witness ==
    /\ ValidInput
    /\ pc = "try"
    /\ best_path # path
    /\ <<i, j>> # <<1, 2>>

\* the distance from place a to place b of a square matrix
Dist(a, b) == distance_matrix[a + 1][b + 1]

\* the places not in the sequence s
NotIn(s) == {y \in 0..(n - 1) : \A q \in 1..Len(s) : s[q] # y}

\* C11: every step of greedy_tsp appends an unvisited index whose distance
\* from the last index of the path is the least among the unvisited indices,
\* and the smallest index among those at that least distance.
C11_NearestLowestIndex ==
    [][ (ValidInput /\ pc = "greedy_loop" /\ path' # path) =>
          LET current == path[Len(path)]
              next_place == path'[Len(path')]
          IN  /\ path' = Append(path, next_place)
              /\ next_place \in NotIn(path)
              /\ ~visited[next_place + 1]
              /\ visited'[next_place + 1]
              /\ \A y \in NotIn(path) :
                    /\ Dist(current, next_place) <= Dist(current, y)
                    /\ Dist(current, y) = Dist(current, next_place) => next_place <= y ]_vars

\* a step of greedy_tsp has appended an index that had an unvisited index at
\* the same distance and an unvisited index farther away
C11_Witness ==
    /\ ValidInput
    /\ pc = "greedy_loop"
    /\ Len(path) >= 2
    /\ LET current == path[Len(path) - 1]
           next_place == path[Len(path)]
       IN  /\ \E y \in NotIn(path) : Dist(current, y) = Dist(current, next_place)
           /\ \E y \in NotIn(path) : Dist(current, y) > Dist(current, next_place)

====
